---- MODULE Spec2Model ----
(***************************************************************************)
(* Boids flocking simulation: the uniform spatial grid (spatial_grid.rs),  *)
(* the per-agent behaviour pipeline (boid.rs) and the Setup/Play/Pause     *)
(* state machine that drives one update per frame (main.rs).               *)
(*                                                                         *)
(* Numbers.  The program computes in f32.  The model computes in integers: *)
(* positions in pixels, velocities in pixels per second, elapsed time in   *)
(* milliseconds, a factor as a pair <<numerator, denominator>>.  A product *)
(* with a factor and a quotient are truncated toward zero; floor, ceil and *)
(* the float-to-usize cast are modelled as Rust defines them.              *)
(*                                                                         *)
(* Indices.  Agent indices are 0-based as in the program (the grid stores  *)
(* them); boids[i + 1] is the program's boids[i].                          *)
(***************************************************************************)
EXTENDS Integers, Sequences, FiniteSets, TLC

VARIABLES
    state,            \* State.state: "Setup" | "Play" | "Pause"
    boid_count,       \* State.boid_count
    boids,            \* State.boids
    spatial_grid,     \* State.spatial_grid: [cells, cell_size, width, height]
    pressed_keys,     \* keys polled by the last update
    pc,               \* the last operation that changed the state, or "panic"
    turn,             \* the callback the frame loop invokes next: "update" | "draw"
    ticks,            \* number of Play updates so far
    pre,              \* boids as the last Play update indexed them (after the command)
    neighbor_lists,   \* candidate lists of the last query
    views,            \* views[i+1]: the slice calculate_behaviors of agent i was given
    processed,        \* processed[i+1]: candidates agent i did not skip
    limited,          \* limited[i+1]: agent i right after limit_speed
    drawn,            \* what the last draw rendered
    overflow_checks,  \* build profile: TRUE when integer overflow panics (debug)
    config            \* arguments SpatialGrid::new was called with

vars == <<state, boid_count, boids, spatial_grid, pressed_keys, pc, turn, ticks, pre,
          neighbor_lists, views, processed, limited, drawn, overflow_checks, config>>

-----------------------------------------------------------------------------
(* Bounds of the model *)

\* One population step.  The program steps by 500 agents and starts with two
\* steps; the model keeps the ratio and counts one agent for each 500.
BoidStep == 1
\* Play updates explored in one behaviour.
MaxTicks == 2
\* Agents indexed in the grid-only specification.
MaxGridBoids == 2

-----------------------------------------------------------------------------
(* Program constants *)

HEIGHT == 720
WIDTH == (HEIGHT * 16) \div 9
NUM_BOIDS == 2 * BoidStep
STEP == BoidStep
\* The largest population the model lets grow reach.
MaxBoids == NUM_BOIDS + STEP

SPEED_LIMIT == 400
VISUAL_RANGE == 32
MIN_DISTANCE == 16
AVOID_FACTOR == <<1, 2>>
CENTERING_FACTOR == <<1, 20>>
MATCHING_FACTOR == <<1, 10>>
DAMPING == <<8, 10>>
TURN_FACTOR == 16
EDGE_BUFFER == 40
CURSOR_RADIUS_SQ == 400
CELL_SIZE == VISUAL_RANGE

-----------------------------------------------------------------------------
(* Arithmetic *)

\* f32 quotient of two integers, truncated toward zero (b > 0).
TruncDiv(a, b) == IF a >= 0 THEN a \div b ELSE -((-a) \div b)

\* v * f for a factor f = <<num, den>>.
Mul(v, f) == TruncDiv(v * f[1], f[2])

\* (a / b).floor() for b # 0.
FloorDiv(a, b) == IF b > 0 THEN a \div b ELSE (-a) \div (-b)

\* (a / b).ceil() for b # 0.
CeilDiv(a, b) == -FloorDiv(-a, b)

\* `v as usize` of a float: saturating, a negative value becomes 0.
AsUsize(v) == IF v < 0 THEN 0 ELSE v

Min(a, b) == IF a <= b THEN a ELSE b

\* f32::sqrt, rounded down to an integer.
Sqrt(n) == CHOOSE r \in 0..n : r * r <= n /\ (r + 1) * (r + 1) > n

RECURSIVE Concat(_)
Concat(ss) == IF ss = <<>> THEN <<>> ELSE Head(ss) \o Concat(Tail(ss))

\* The integers lo..hi in increasing order, as a sequence.
Range(lo, hi) == [k \in 1..(hi - lo + 1) |-> lo + k - 1]

\* The elements of a sequence.
Elems(s) == {s[k] : k \in 1..Len(s)}

-----------------------------------------------------------------------------
(* spatial_grid.rs *)

\* SpatialGrid::new.  It validates nothing: every argument triple yields a grid.
SpatialGrid_new(window_width, window_height, cell_size) ==
    LET width  == AsUsize(CeilDiv(window_width, cell_size))
        height == AsUsize(CeilDiv(window_height, cell_size))
    IN  [cells     |-> [k \in 1..(width * height) |-> <<>>],
         cell_size |-> cell_size,
         width     |-> width,
         height    |-> height]

\* SpatialGrid::clear with the mutation "the buckets are left as they are".
clear_kept(grid) == grid

\* SpatialGrid::clear
clear(grid) == [grid EXCEPT !.cells = [k \in 1..Len(grid.cells) |-> <<>>]]

\* `self.width - 1` underflows when the dimension is 0: a panic with overflow
\* checks, a wrap to usize::MAX without.
insert_panics(grid, checks) == checks /\ (grid.width = 0 \/ grid.height = 0)

\* The clamp of insert left out: the floored cell is used as it is.
ClampCell_unclamped(cell, dim) == cell

\* `cell.min(dim - 1)`; with dim = 0 and no overflow checks dim - 1 wraps to
\* usize::MAX and the minimum is the cell itself.
ClampCell(cell, dim) == IF dim = 0 THEN cell ELSE Min(cell, dim - 1)

\* The 0-based bucket index insert computes for a position.
cell_index(grid, boid) ==
    LET cell_x == ClampCell(AsUsize(FloorDiv(boid.x, grid.cell_size)), grid.width)
        cell_y == ClampCell(AsUsize(FloorDiv(boid.y, grid.cell_size)), grid.height)
    IN  cell_y * grid.width + cell_x

\* SpatialGrid::insert (when it does not panic)
insert(grid, boid_index, boid) ==
    LET idx == cell_index(grid, boid)
    IN  IF idx < Len(grid.cells)
        THEN [grid EXCEPT !.cells[idx + 1] = Append(@, boid_index)]
        ELSE grid

\* SpatialGrid::get_neighbors
get_neighbors(grid, boid, range) ==
    LET cell_range == AsUsize(CeilDiv(range, grid.cell_size)) + 1
        cx == FloorDiv(boid.x, grid.cell_size)
        cy == FloorDiv(boid.y, grid.cell_size)
        ys == Range(cy - cell_range, cy + cell_range)
        xs == Range(cx - cell_range, cx + cell_range)
        Cell(x, y) ==
            IF y < 0 \/ y >= grid.height \/ x < 0 \/ x >= grid.width
            THEN <<>>
            ELSE LET idx == y * grid.width + x
                 IN  IF idx < Len(grid.cells) THEN grid.cells[idx + 1] ELSE <<>>
        Row(y) == Concat([k \in 1..Len(xs) |-> Cell(xs[k], y)])
    IN  Concat([k \in 1..Len(ys) |-> Row(ys[k])])

-----------------------------------------------------------------------------
(* main.rs: the grid helpers of State *)

\* State::update_spatial_grid: clear, then insert every agent in index order.
RECURSIVE insert_all(_, _, _)
insert_all(grid, bs, n) ==
    IF n = 0 THEN grid ELSE insert(insert_all(grid, bs, n - 1), n - 1, bs[n])

update_spatial_grid(grid, bs) == insert_all(clear(grid), bs, Len(bs))

\* State::get_all_neighbor_lists
get_all_neighbor_lists(grid, bs) ==
    [k \in 1..Len(bs) |-> get_neighbors(grid, bs[k], VISUAL_RANGE)]

-----------------------------------------------------------------------------
(* boid.rs *)

\* Boid::new.  rnd holds the seven rand::random::<f32>() draws, in thousandths
\* (0..999).  A colour channel is kept in units of 1/510, so that alpha 0.5 is 255.
Boid_new(win_width, win_height, rnd) ==
    [x     |-> TruncDiv(rnd[1] * win_width, 2000) + win_width \div 4,
     y     |-> TruncDiv(rnd[2] * win_height, 2000) + win_height \div 4,
     dx    |-> TruncDiv((rnd[3] - 500) * SPEED_LIMIT, 1000),
     dy    |-> TruncDiv((rnd[4] - 500) * SPEED_LIMIT, 1000),
     color |-> <<2 * (TruncDiv(rnd[5] * 128, 1000) + 128),
                 2 * (TruncDiv(rnd[6] * 128, 1000) + 128),
                 2 * (TruncDiv(rnd[7] * 128, 1000) + 128),
                 255>>]

\* `&boids[idx]` in the candidate loop panics on an index that is not below
\* boids.len(); the slice keeps its length through the movement loop.
index_panics(lists, bs) ==
    \E k \in 1..Len(lists) : \E idx \in Elems(lists[k]) : idx >= Len(bs)

\* The `continue` of the candidate loop: the candidate is skipped when its
\* coordinates equal the agent's own.
skips(self, other) == self.x = other.x /\ self.y = other.y

\* The accumulators of calculate_behaviors after its first k candidates.
\* `processed` lists the candidates that were not skipped.
RECURSIVE accumulate(_, _, _, _)
accumulate(self, neighbor_indices, bs, k) ==
    IF k = 0
    THEN [avoid_x |-> 0, avoid_y |-> 0, center_x |-> 0, center_y |-> 0,
          avg_dx |-> 0, avg_dy |-> 0, num_neighbors |-> 0, num_close |-> 0,
          processed |-> <<>>]
    ELSE LET acc   == accumulate(self, neighbor_indices, bs, k - 1)
             idx   == neighbor_indices[k]
             other == bs[idx + 1]
             dx    == self.x - other.x
             dy    == self.y - other.y
             squared_dist == dx * dx + dy * dy
             close   == squared_dist < MIN_DISTANCE * MIN_DISTANCE
             visible == squared_dist < VISUAL_RANGE * VISUAL_RANGE
         IN  IF skips(self, other)
             THEN acc
             ELSE [avoid_x   |-> IF close THEN acc.avoid_x + dx ELSE acc.avoid_x,
                   avoid_y   |-> IF close THEN acc.avoid_y + dy ELSE acc.avoid_y,
                   num_close |-> IF close THEN acc.num_close + 1 ELSE acc.num_close,
                   center_x  |-> IF visible THEN acc.center_x + other.x ELSE acc.center_x,
                   center_y  |-> IF visible THEN acc.center_y + other.y ELSE acc.center_y,
                   avg_dx    |-> IF visible THEN acc.avg_dx + other.dx ELSE acc.avg_dx,
                   avg_dy    |-> IF visible THEN acc.avg_dy + other.dy ELSE acc.avg_dy,
                   num_neighbors |->
                       IF visible THEN acc.num_neighbors + 1 ELSE acc.num_neighbors,
                   processed |-> Append(acc.processed, idx)]

\* Boid::calculate_behaviors: separation, then cohesion, then alignment on the
\* velocity the first two have already changed.
calculate_behaviors(self, neighbor_indices, bs) ==
    LET acc == accumulate(self, neighbor_indices, bs, Len(neighbor_indices))
        a   == IF acc.num_close > 0
               THEN [self EXCEPT !.dx = @ + Mul(acc.avoid_x, AVOID_FACTOR),
                                 !.dy = @ + Mul(acc.avoid_y, AVOID_FACTOR)]
               ELSE self
        center_x == TruncDiv(acc.center_x, acc.num_neighbors)
        center_y == TruncDiv(acc.center_y, acc.num_neighbors)
        c   == [a EXCEPT !.dx = @ + Mul(center_x - a.x, CENTERING_FACTOR),
                         !.dy = @ + Mul(center_y - a.y, CENTERING_FACTOR)]
        avg_dx == TruncDiv(acc.avg_dx, acc.num_neighbors)
        avg_dy == TruncDiv(acc.avg_dy, acc.num_neighbors)
    IN  IF acc.num_neighbors > 0
        THEN [c EXCEPT !.dx = @ + Mul(avg_dx - c.dx, MATCHING_FACTOR),
                       !.dy = @ + Mul(avg_dy - c.dy, MATCHING_FACTOR)]
        ELSE a

\* The speed check of limit_speed, skipped.
limit_speed_off(self) == self

\* Boid::limit_speed
limit_speed(self) ==
    LET squared_speed == self.dx * self.dx + self.dy * self.dy
        speed == Sqrt(squared_speed)
    IN  IF squared_speed > SPEED_LIMIT * SPEED_LIMIT
        THEN [self EXCEPT !.dx = TruncDiv(@ * SPEED_LIMIT, speed),
                          !.dy = TruncDiv(@ * SPEED_LIMIT, speed)]
        ELSE self

\* Boid::update_position.  tick is in milliseconds (the program's tick * 1000).
update_position(self, tick) ==
    [self EXCEPT !.x = @ + TruncDiv(self.dx * tick, 1000),
                 !.y = @ + TruncDiv(self.dy * tick, 1000)]

\* Boid::keep_within_bounds
keep_within_bounds(self, cursor, win_width, win_height) ==
    LET x_low   == self.x < EDGE_BUFFER
        x_high  == ~x_low /\ self.x > win_width - EDGE_BUFFER
        y_low   == self.y < EDGE_BUFFER
        y_high  == ~y_low /\ self.y > win_height - EDGE_BUFFER
        dx1 == IF x_low THEN self.dx + TURN_FACTOR
               ELSE IF x_high THEN self.dx - TURN_FACTOR ELSE self.dx
        dy1 == IF y_low THEN self.dy + TURN_FACTOR
               ELSE IF y_high THEN self.dy - TURN_FACTOR ELSE self.dy
        dx2 == IF x_low \/ x_high THEN Mul(dx1, DAMPING) ELSE dx1
        dy2 == IF y_low \/ y_high THEN Mul(dy1, DAMPING) ELSE dy1
        dx_cursor == self.x - cursor.x
        dy_cursor == self.y - cursor.y
        squared_dist_cursor == dx_cursor * dx_cursor + dy_cursor * dy_cursor
    IN  IF squared_dist_cursor < CURSOR_RADIUS_SQ
        THEN [self EXCEPT !.dx = dx2 + dx_cursor, !.dy = dy2 + dy_cursor]
        ELSE [self EXCEPT !.dx = dx2, !.dy = dy2]

-----------------------------------------------------------------------------
(* main.rs: inputs *)

\* The draws of rand::random, as a generator seeded from a small set: stream s
\* is cycled to give the seven draws of the k-th Boid::new.  Stream 1 seeds
\* agents closer than MIN_DISTANCE, stream 2 two agents at the same coordinates
\* and a third in visual range of them.
RandStreams ==
    << << <<500, 500, 750, 500, 0, 500, 999>>,
          <<510, 500, 250, 600, 100, 200, 300>>,
          <<520, 520, 500, 999, 999, 0, 500>> >>,
       << <<300, 300, 999, 999, 10, 20, 30>>,
          <<300, 300, 0, 500, 40, 50, 60>>,
          <<330, 300, 500, 0, 70, 80, 90>> >> >>

Seeds == 1..Len(RandStreams)

Draws(seed, k) == RandStreams[seed][((k - 1) % Len(RandStreams[seed])) + 1]

\* get_boids with the mutation "the population is not reseeded at the new count".
get_boids_stale(count, seed) == [k \in 1..NUM_BOIDS |-> Boid_new(WIDTH, HEIGHT, Draws(seed, k))]

\* get_boids
get_boids(count, seed) == [k \in 1..count |-> Boid_new(WIDTH, HEIGHT, Draws(seed, k))]

Keys == {"Space", "P", "R", "Up", "Down"}

\* input::keyboard::pressed_keys: the keys held down at one poll: none, one, or a
\* pair that two branches of an else-if chain compete for.
KeySets == {{}} \cup {{k} : k \in Keys} \cup {{"Space", "R"}, {"P", "R"}, {"R", "Up"}}

\* timer::delta(ctx).subsec_millis(), in milliseconds.
TickValues == {0, 100}

\* input::mouse::position: far from every agent, or next to the agents of stream 1.
MousePositions == {[x |-> 0, y |-> 0], [x |-> 630, y |-> 355]}

-----------------------------------------------------------------------------
(* main.rs: State *)

\* self.boids.drain(..), with the drain left out.
drain_kept(bs) == bs

\* self.boids.drain(..)
drain(bs) == <<>>

\* The count adjust_boid_count leaves in self.boid_count.
adjust_count(count, increase) ==
    IF increase THEN count + STEP
    ELSE IF count > STEP THEN count - STEP
    ELSE count

\* The Pause arm's chain with the mutation "P is taken for a grow".
PauseBranch_p_grows(keys) ==
    IF "P" \in keys THEN "Up"
    ELSE IF "Space" \in keys THEN "Space"
    ELSE IF "R" \in keys THEN "R"
    ELSE IF "Up" \in keys THEN "Up"
    ELSE IF "Down" \in keys THEN "Down"
    ELSE "none"

\* The branch of the Pause arm's else-if chain that the keys select.
PauseBranch(keys) ==
    IF "Space" \in keys THEN "Space"
    ELSE IF "R" \in keys THEN "R"
    ELSE IF "Up" \in keys THEN "Up"
    ELSE IF "Down" \in keys THEN "Down"
    ELSE "none"

\* The branch of the Play arm's else-if chain that the keys select.
PlayBranch(keys) ==
    IF "P" \in keys THEN "P"
    ELSE IF "R" \in keys THEN "R"
    ELSE IF "Up" \in keys THEN "Up"
    ELSE IF "Down" \in keys THEN "Down"
    ELSE "none"

\* The Play arm with the mutation "Up falls through to the pause branch".
PlayArm_state_fallthrough(keys) ==
    IF PlayBranch(keys) \in {"P", "Up"} THEN "Pause"
    ELSE IF PlayBranch(keys) = "R" THEN "Setup"
    ELSE "Play"

\* self.state after the Setup, Pause and Play arms.
SetupArm_state(keys) == IF "Space" \in keys THEN "Play" ELSE "Setup"

PauseArm_state(keys) ==
    IF PauseBranch(keys) = "Space" THEN "Play"
    ELSE IF PauseBranch(keys) = "R" THEN "Setup"
    ELSE "Pause"

PlayArm_state(keys) ==
    IF PlayBranch(keys) = "P" THEN "Pause"
    ELSE IF PlayBranch(keys) = "R" THEN "Setup"
    ELSE "Play"

\* The movement loop of the Play arm after its first k iterations: agent k-1 is
\* copied, updated against the slice as it then stands, and stored back.
RECURSIVE update_boids(_, _, _, _)
update_boids(bs, lists, tick, k) ==
    IF k = 0 THEN bs
    ELSE LET prev == update_boids(bs, lists, tick, k - 1)
             boid == update_position(
                         limit_speed(calculate_behaviors(prev[k], lists[k], prev)),
                         tick)
         IN  [prev EXCEPT ![k] = boid]

\* State::new
Init ==
    /\ \E seed \in Seeds : boids = get_boids(NUM_BOIDS, seed)
    /\ state = "Setup"
    /\ boid_count = NUM_BOIDS
    /\ config = [w |-> WIDTH, h |-> HEIGHT, cs |-> CELL_SIZE]
    /\ spatial_grid = SpatialGrid_new(WIDTH, HEIGHT, CELL_SIZE)
    /\ overflow_checks \in BOOLEAN
    /\ pressed_keys = {}
    /\ pc = "new"
    /\ turn = "update"
    /\ ticks = 0
    /\ pre = <<>>
    /\ neighbor_lists = <<>>
    /\ views = <<>>
    /\ processed = <<>>
    /\ limited = <<>>
    /\ drawn = [menu |-> FALSE, boids |-> <<>>]

NoTrace ==
    /\ pre' = <<>>
    /\ neighbor_lists' = <<>>
    /\ views' = <<>>
    /\ processed' = <<>>
    /\ limited' = <<>>

\* update, arm PlayState::Setup
UpdateSetup(keys, seed) ==
    /\ pc # "panic"
    /\ turn = "update"
    /\ turn' = "draw"
    /\ state = "Setup"
    /\ pressed_keys' = keys
    /\ pc' = "Setup"
    /\ state' = SetupArm_state(keys)
    /\ boids' = IF "Space" \in keys THEN get_boids(boid_count, seed)
                ELSE drain(boids)
    /\ NoTrace
    /\ UNCHANGED <<boid_count, spatial_grid, ticks, drawn, overflow_checks, config>>

\* update, arm PlayState::Pause.  update reads the elapsed time before the match;
\* the arm uses neither it nor the mouse, which only the Play arm polls.
UpdatePause(keys, seed, tick, mouse) ==
    /\ pc # "panic"
    /\ turn = "update"
    /\ turn' = "draw"
    /\ state = "Pause"
    /\ PauseBranch(keys) = "Up" => boid_count + STEP <= MaxBoids
    /\ pressed_keys' = keys
    /\ pc' = "Pause"
    /\ state' = PauseArm_state(keys)
    /\ boid_count' = IF PauseBranch(keys) \in {"Up", "Down"}
                     THEN adjust_count(boid_count, PauseBranch(keys) = "Up")
                     ELSE boid_count
    /\ boids' = IF PauseBranch(keys) \in {"Up", "Down"}
                THEN get_boids(boid_count', seed)
                ELSE boids
    /\ NoTrace
    /\ UNCHANGED <<spatial_grid, ticks, drawn, overflow_checks, config>>

\* update, arm PlayState::Play: the command, then the whole tick pipeline.
\* views'[k] is the slice as the loop's iteration k-1 finds it, so
\* update_position(limited'[k], tick) is the agent that iteration stores back.
\* A candidate index out of bounds panics in the movement loop and ends the
\* process; the agents are then left as the command left them.
UpdatePlay(keys, seed, tick, mouse) ==
    /\ pc # "panic"
    /\ turn = "update"
    /\ turn' = "draw"
    /\ state = "Play"
    /\ ticks < MaxTicks
    /\ PlayBranch(keys) = "Up" => boid_count + STEP <= MaxBoids
    /\ pressed_keys' = keys
    /\ ticks' = ticks + 1
    /\ state' = PlayArm_state(keys)
    /\ boid_count' = IF PlayBranch(keys) \in {"Up", "Down"}
                     THEN adjust_count(boid_count, PlayBranch(keys) = "Up")
                     ELSE boid_count
    /\ pre' = IF PlayBranch(keys) \in {"Up", "Down"}
              THEN get_boids(boid_count', seed)
              ELSE boids
    /\ spatial_grid' = update_spatial_grid(spatial_grid, pre')
    /\ neighbor_lists' = get_all_neighbor_lists(spatial_grid', pre')
    /\ pc' = IF index_panics(neighbor_lists', pre') THEN "panic" ELSE "Play"
    /\ IF pc' = "panic"
       THEN /\ views' = <<>>
            /\ processed' = <<>>
            /\ limited' = <<>>
            /\ boids' = pre'
       ELSE /\ views' = [k \in 1..Len(pre') |->
                            update_boids(pre', neighbor_lists', tick, k - 1)]
            /\ processed' =
                   [k \in 1..Len(pre') |->
                       accumulate(views'[k][k], neighbor_lists'[k], views'[k],
                                  Len(neighbor_lists'[k])).processed]
            /\ limited' =
                   [k \in 1..Len(pre') |->
                       limit_speed(calculate_behaviors(views'[k][k], neighbor_lists'[k],
                                                       views'[k]))]
            /\ boids' = [k \in 1..Len(pre') |->
                            keep_within_bounds(update_position(limited'[k], tick),
                                               mouse, WIDTH, HEIGHT)]
    /\ UNCHANGED <<drawn, overflow_checks, config>>

\* draw: the menu in Setup, every agent otherwise.  event::run calls update and
\* then draw once per frame.
Draw ==
    /\ pc # "panic"
    /\ turn = "draw"
    /\ turn' = "update"
    /\ drawn' = [menu  |-> state = "Setup",
                 boids |-> IF state = "Setup" THEN <<>> ELSE boids]
    /\ UNCHANGED <<state, boid_count, boids, spatial_grid, pressed_keys, pc, ticks, pre,
                   neighbor_lists, views, processed, limited, overflow_checks, config>>

Next ==
    \/ \E keys \in KeySets, seed \in Seeds : UpdateSetup(keys, seed)
    \/ \E keys \in KeySets, seed \in Seeds, tick \in TickValues, mouse \in MousePositions :
           UpdatePause(keys, seed, tick, mouse)
    \/ \E keys \in KeySets, seed \in Seeds, tick \in TickValues, mouse \in MousePositions :
           UpdatePlay(keys, seed, tick, mouse)
    \/ Draw

Spec == Init /\ [][Next]_vars

-----------------------------------------------------------------------------
(* The grid on its own: SpatialGrid::new with any arguments, then rebuilds and
   queries over agents at any position. *)

\* Arguments of SpatialGrid::new: positive, zero and negative dimensions, a
\* positive and a negative cell size.
GridConfigs ==
    {[w |-> w, h |-> h, cs |-> cs] : w \in {-64, 0, 64, 80}, h \in {0, 64}, cs \in {-32, 32}}

\* Positions inside the world, on a cell border, and outside it on either side.
GridPoints ==
    {<<-70, 10>>, <<-5, 10>>, <<31, 31>>, <<32, 32>>, <<40, 20>>, <<70, 70>>, <<200, 10>>}

GridBoid(p) == [x |-> p[1], y |-> p[2], dx |-> 0, dy |-> 0, color |-> <<510, 510, 510, 255>>]

GridBoidSeqs ==
    UNION {[1..n -> {GridBoid(p) : p \in GridPoints}] : n \in 0..MaxGridBoids}

InitGrid ==
    /\ config \in GridConfigs
    /\ spatial_grid = SpatialGrid_new(config.w, config.h, config.cs)
    /\ boids \in GridBoidSeqs
    /\ boid_count = Len(boids)
    /\ overflow_checks \in BOOLEAN
    /\ state = "Play"
    /\ pressed_keys = {}
    /\ pc = "new"
    /\ turn = "update"
    /\ ticks = 0
    /\ pre = <<>>
    /\ neighbor_lists = <<>>
    /\ views = <<>>
    /\ processed = <<>>
    /\ limited = <<>>
    /\ drawn = [menu |-> FALSE, boids |-> <<>>]

\* State::update_spatial_grid on this grid; the first insert panics on a grid
\* with a zero dimension when overflow is checked.
GridRebuild ==
    /\ pc # "panic"
    /\ IF boids # <<>> /\ insert_panics(spatial_grid, overflow_checks)
       THEN /\ pc' = "panic"
            /\ spatial_grid' = clear(spatial_grid)
            /\ UNCHANGED pre
       ELSE /\ pc' = "update_spatial_grid"
            /\ spatial_grid' = update_spatial_grid(spatial_grid, boids)
            /\ pre' = boids
    /\ UNCHANGED <<state, boid_count, boids, pressed_keys, turn, ticks, neighbor_lists,
                   views, processed, limited, drawn, overflow_checks, config>>

\* State::get_all_neighbor_lists on this grid.
GridQuery ==
    /\ pc # "panic"
    /\ pc' = "get_all_neighbor_lists"
    /\ neighbor_lists' = get_all_neighbor_lists(spatial_grid, boids)
    /\ UNCHANGED <<state, boid_count, boids, spatial_grid, pressed_keys, turn, ticks, pre,
                   views, processed, limited, drawn, overflow_checks, config>>

NextGrid == GridRebuild \/ GridQuery

SpecGrid == InitGrid /\ [][NextGrid]_vars

-----------------------------------------------------------------------------
(* The program in the middle of a run: Play, with agents anywhere near the
   world and at any speed the clamp lets through. *)

\* Pattern 1: an agent next to the cursor at just under SPEED_LIMIT, and one in
\* the corner's edge buffer.  Pattern 2: agents that have left the world.
TickAgents ==
    << << [x |-> 640, y |-> 360, dx |-> 390, dy |-> 80, color |-> <<300, 300, 300, 255>>],
          [x |-> 20, y |-> 700, dx |-> -300, dy |-> 250, color |-> <<400, 400, 400, 255>>] >>,
       << [x |-> 1300, y |-> 730, dx |-> 399, dy |-> 20, color |-> <<300, 400, 500, 255>>],
          [x |-> -10, y |-> -10, dx |-> -250, dy |-> -250, color |-> <<500, 400, 300, 255>>] >> >>

TickBoids(p) ==
    [k \in 1..NUM_BOIDS |-> TickAgents[p][((k - 1) % Len(TickAgents[p])) + 1]]

InitTick ==
    /\ \E p \in 1..Len(TickAgents) : boids = TickBoids(p)
    /\ state = "Play"
    /\ boid_count = NUM_BOIDS
    /\ config = [w |-> WIDTH, h |-> HEIGHT, cs |-> CELL_SIZE]
    /\ spatial_grid = SpatialGrid_new(WIDTH, HEIGHT, CELL_SIZE)
    /\ overflow_checks \in BOOLEAN
    /\ pressed_keys = {}
    /\ pc = "Play"
    /\ turn = "update"
    /\ ticks = 0
    /\ pre = <<>>
    /\ neighbor_lists = <<>>
    /\ views = <<>>
    /\ processed = <<>>
    /\ limited = <<>>
    /\ drawn = [menu |-> FALSE, boids |-> boids]

SpecTick == InitTick /\ [][Next]_vars

-----------------------------------------------------------------------------
(* Properties *)

SquaredSpeed(b) == b.dx * b.dx + b.dy * b.dy

SquaredDist(a, b) == (a.x - b.x) * (a.x - b.x) + (a.y - b.y) * (a.y - b.y)

\* C1: in a Play update, the behaviour calculation of agent i reads every other
\* agent j of its candidate list as j was when the update indexed the agents:
\* the slice it is given holds j's pre-tick position and velocity.
C1_BehaviourReadsPreTickSnapshot ==
    pc = "Play" =>
        \A k \in 1..Len(views) :
            \A j \in Elems(neighbor_lists[k]) :
                j + 1 # k => views[k][j + 1] = pre[j + 1]

\* C2: in the behaviour calculation of agent i, a candidate is skipped if and
\* only if its index is i: the candidates processed are the candidate list
\* without i, also when another agent has i's coordinates.
C2_SkipsExactlyOwnIndex ==
    pc = "Play" =>
        \A k \in 1..Len(processed) :
            processed[k] = SelectSeq(neighbor_lists[k], LAMBDA j : j # k - 1)

\* All three arguments of SpatialGrid::new positive.
ValidConfig == config.w > 0 /\ config.h > 0 /\ config.cs > 0

\* The grid holds a rebuild from the current agents.
Rebuilt == pc \in {"update_spatial_grid", "get_all_neighbor_lists"} /\ pre = boids

Clamp(v, lo, hi) == IF v < lo THEN lo ELSE IF v > hi THEN hi ELSE v

\* The number of times index i occurs in bucket c.
Occurrences(c, i) == Cardinality({k \in 1..Len(c) : c[k] = i})

RECURSIVE SumOccurrences(_, _, _)
SumOccurrences(cells, i, n) ==
    IF n = 0 THEN 0 ELSE SumOccurrences(cells, i, n - 1) + Occurrences(cells[n], i)

\* C3: after a rebuild of a grid built from positive arguments, every agent
\* index 0..n-1 occurs exactly once over all buckets, in the bucket of cell
\* clamp(floor(position / cell_size), [0, grid_dim - 1]) on each axis, whatever
\* the position; the buckets hold nothing else.
C3_RebuildPartitionsAgents ==
    (ValidConfig /\ Rebuilt) =>
        LET grid_width  == CeilDiv(config.w, config.cs)
            grid_height == CeilDiv(config.h, config.cs)
            cells == spatial_grid.cells
        IN  /\ Len(cells) = grid_width * grid_height
            /\ \A c \in 1..Len(cells) : Elems(cells[c]) \subseteq 0..(Len(boids) - 1)
            /\ \A i \in 0..(Len(boids) - 1) :
                   LET cell_x == Clamp(FloorDiv(boids[i + 1].x, config.cs), 0, grid_width - 1)
                       cell_y == Clamp(FloorDiv(boids[i + 1].y, config.cs), 0, grid_height - 1)
                   IN  /\ SumOccurrences(cells, i, Len(cells)) = 1
                       /\ Occurrences(cells[cell_y * grid_width + cell_x + 1], i) = 1

\* C3 witness: world 64x64 with cell size 32 rebuilt; an agent at (70,70) sits in
\* cell (1,1) (bucket 3) and an agent left of the world sits in column 0.
C3_Witness ==
    /\ Rebuilt
    /\ config = [w |-> 64, h |-> 64, cs |-> 32]
    /\ \E i \in 1..Len(boids) :
           /\ boids[i].x = 70 /\ boids[i].y = 70
           /\ i - 1 \in Elems(spatial_grid.cells[4])
    /\ \E i \in 1..Len(boids) :
           /\ boids[i].x < 0
           /\ i - 1 \in Elems(spatial_grid.cells[1])

\* Query radii up to the cell size.
Radii == {1, MIN_DISTANCE, VISUAL_RANGE}

\* C4: after a rebuild, for every indexed agent a and every radius r <=
\* cell_size, every agent closer than r to a (a itself included) is among the
\* candidates get_neighbors returns for a's position and r.
C4_QueryIsSuperset ==
    (ValidConfig /\ Rebuilt) =>
        \A a \in 1..Len(boids) : \A r \in {q \in Radii : q <= config.cs} :
            \A b \in 1..Len(boids) :
                SquaredDist(boids[a], boids[b]) < r * r =>
                    b - 1 \in Elems(get_neighbors(spatial_grid, boids[a], r))

\* C5: in every Play update each agent's speed right after the behaviour step
\* and limit_speed is at most SPEED_LIMIT (to the model's resolution of one
\* pixel per second), whatever its speed was when the update began.
C5_SpeedClampedAfterBehaviour ==
    pc = "Play" =>
        \A k \in 1..Len(limited) :
            SquaredSpeed(limited[k]) <= (SPEED_LIMIT + 1) * (SPEED_LIMIT + 1)

\* C5 witness: the second Play update began with an agent above SPEED_LIMIT
\* (pushed there by the cursor impulse of the first) and clamped it.
C5_Witness ==
    /\ pc = "Play"
    /\ ticks = 2
    /\ \E k \in 1..Len(limited) :
           /\ SquaredSpeed(pre[k]) > SPEED_LIMIT * SPEED_LIMIT
           /\ SquaredSpeed(views[k][k]) > SPEED_LIMIT * SPEED_LIMIT
           /\ SquaredSpeed(limited[k]) <= (SPEED_LIMIT + 1) * (SPEED_LIMIT + 1)

\* C6: SpatialGrid::new with a non-positive width, height or cell size fails
\* with a configuration error: no grid is returned, and no insert or query
\* runs on one.
C6_InvalidConfigRejected ==
    ~ValidConfig => pc = "config_error"

\* The command a poll of exactly one key stands for.
Start  == {"Space"}
Resume == {"Space"}
Pause  == {"P"}
Reset  == {"R"}
Grow   == {"Up"}
Shrink == {"Down"}

\* A step of update (update never touches what draw rendered, draw only that).
UpdateStep == turn = "update" /\ turn' = "draw"

\* C7: the phase changes only Setup -> Play on start, Play -> Pause on pause,
\* Pause -> Play on resume, Play or Pause -> Setup on reset; every other
\* command in every phase leaves the phase as it is, and no command received in
\* Setup changes the population count.
C7_PhaseTransitions ==
    [][UpdateStep =>
          /\ state' # state =>
                \/ state = "Setup" /\ state' = "Play"  /\ "Space" \in pressed_keys'
                \/ state = "Play"  /\ state' = "Pause" /\ "P" \in pressed_keys'
                \/ state = "Pause" /\ state' = "Play"  /\ "Space" \in pressed_keys'
                \/ state = "Play"  /\ state' = "Setup" /\ "R" \in pressed_keys'
                \/ state = "Pause" /\ state' = "Setup" /\ "R" \in pressed_keys'
          /\ (state = "Setup" /\ pressed_keys' = Start)  => state' = "Play"
          /\ (state = "Play"  /\ pressed_keys' = Pause)  => state' = "Pause"
          /\ (state = "Pause" /\ pressed_keys' = Resume) => state' = "Play"
          /\ (state \in {"Play", "Pause"} /\ pressed_keys' = Reset) => state' = "Setup"
          /\ (state = "Setup" /\ pressed_keys' \in {{}, Pause, Reset, Grow, Shrink})
                => state' = state
          /\ (state = "Play" /\ pressed_keys' \in {{}, Start, Grow, Shrink})
                => state' = state
          /\ (state = "Pause" /\ pressed_keys' \in {{}, Pause, Grow, Shrink})
                => state' = state
          /\ state = "Setup" => boid_count' = boid_count
      ]_vars

\* C7 witness: the machine has been through Play and Pause, has been reset to
\* Setup, and there ignored a grow at the population it was reset with.
C7_Witness ==
    /\ state = "Setup"
    /\ pc = "Setup"
    /\ pressed_keys = Grow
    /\ ticks > 0
    /\ boid_count # NUM_BOIDS

\* C8 as claimed: in every reachable state whose phase is Setup the agent
\* sequence is empty.
C8_SetupHasNoAgents ==
    state = "Setup" => boids = <<>>

\* C8 amended: in every reachable state whose phase is Setup and whose last
\* update ran the Setup arm, the agent sequence is empty.  (The initial state
\* and the state a reset leaves still hold agents; the next update drains them.)
C8_SetupDrainedByItsUpdate ==
    (state = "Setup" /\ pc = "Setup") => boids = <<>>

\* C8 witness: after a run was reset, an update in Setup has emptied the sequence.
C8_Witness ==
    /\ state = "Setup"
    /\ pc = "Setup"
    /\ ticks > 0
    /\ boids = <<>>

\* A shrink or grow the update acts on, and the sequence right after the command.
ShrinkAccepted ==
    \/ state = "Pause" /\ PauseBranch(pressed_keys') = "Down"
    \/ state = "Play" /\ PlayBranch(pressed_keys') = "Down"

GrowAccepted ==
    \/ state = "Pause" /\ PauseBranch(pressed_keys') = "Up"
    \/ state = "Play" /\ PlayBranch(pressed_keys') = "Up"

\* C9: a shrink received at the population floor leaves the population count
\* and the agent sequence (every position, velocity and colour) as they were.
C9_ShrinkAtFloorIsNoOp ==
    [][(UpdateStep /\ ShrinkAccepted /\ boid_count <= STEP) =>
          /\ boid_count' = boid_count
          /\ IF state = "Pause" THEN boids' = boids ELSE pre' = boids
      ]_vars

\* The sequence the command left is freshly seeded at count n.
Reseeded(seq, n) ==
    /\ Len(seq) = n
    /\ \E seed \in Seeds :
           \A k \in 1..n : seq[k] = Boid_new(WIDTH, HEIGHT, Draws(seed, k))

\* In Play and Pause the sequence has the length of the population count, and
\* draw renders exactly that sequence.
LengthIsCount ==
    /\ state' \in {"Play", "Pause"} => Len(boids') = boid_count'
    /\ (turn = "draw" /\ state \in {"Play", "Pause"}) =>
           drawn' = [menu |-> FALSE, boids |-> boids] /\ Len(drawn'.boids) = boid_count

\* C10 as claimed: in Play and Pause the rendered sequence has the length of
\* the population count, and a grow or shrink changes the count by exactly one
\* step and replaces the sequence with one of the new length.
C10_ResizeChangesCountByStep ==
    [][/\ LengthIsCount
       /\ (UpdateStep /\ GrowAccepted) =>
              /\ boid_count' = boid_count + STEP
              /\ Reseeded(IF state = "Pause" THEN boids' ELSE pre', boid_count')
       /\ (UpdateStep /\ ShrinkAccepted) =>
              /\ boid_count' = boid_count - STEP
              /\ Reseeded(IF state = "Pause" THEN boids' ELSE pre', boid_count')
      ]_vars

\* C10 amended: as claimed, except that a shrink at the floor (count <= one
\* step) leaves the count; it still replaces the sequence with a fresh one of
\* that length.
C10_ResizeChangesCountByStepAboveFloor ==
    [][/\ LengthIsCount
       /\ (UpdateStep /\ GrowAccepted) =>
              /\ boid_count' = boid_count + STEP
              /\ Reseeded(IF state = "Pause" THEN boids' ELSE pre', boid_count')
       /\ (UpdateStep /\ ShrinkAccepted) =>
              /\ boid_count' = IF boid_count > STEP THEN boid_count - STEP ELSE boid_count
              /\ Reseeded(IF state = "Pause" THEN boids' ELSE pre', boid_count')
      ]_vars

\* C10 witness: a grow received in Pause has raised the count one step above
\* the start, and the sequence has the new length.
C10_Witness ==
    /\ state = "Pause"
    /\ pc = "Pause"
    /\ pressed_keys = Grow
    /\ boid_count = NUM_BOIDS + STEP
    /\ Len(boids) = boid_count

\* A poll in Pause that the arm takes for a grow or a shrink: Up or Down held,
\* and neither Space nor R, which the chain tests first.
PausedResize ==
    /\ pressed_keys' \cap {"Up", "Down"} # {}
    /\ pressed_keys' \cap {"Space", "R"} = {}

\* C11: an update processed in Pause runs no part of the tick pipeline: unless
\* the command is grow or shrink, every agent (position, velocity, colour) and
\* the population count are after the update what they were before it, the
\* grid is not rebuilt and no candidate list is computed, for every elapsed
\* time and mouse position.
C11_PausedTickFreezesAgents ==
    [][(UpdateStep /\ state = "Pause") =>
          /\ ~PausedResize => (boids' = boids /\ boid_count' = boid_count)
          /\ spatial_grid' = spatial_grid
          /\ ticks' = ticks
          /\ neighbor_lists' = <<>> /\ views' = <<>> /\ limited' = <<>>
      ]_vars

\* C11 witness: after at least one Play update, an update in Pause with no key
\* held has left the agents exactly as the draw before it rendered them.
C11_Witness ==
    /\ state = "Pause"
    /\ pc = "Pause"
    /\ pressed_keys = {}
    /\ ticks > 0
    /\ boids # <<>>
    /\ drawn = [menu |-> FALSE, boids |-> boids]

\* C12: no Play update panics on an agent index, whatever commands came before
\* (a shrink in Pause or in the same update leaves larger indices in the grid
\* until the rebuild): after the command the grid holds only indices of the
\* current sequence, there is one candidate list for each agent, and every
\* index in every list is below the length of the slice the behaviour
\* calculation is given.
C12_CandidateIndicesInBounds ==
    /\ pc # "panic"
    /\ pc = "Play" =>
           /\ Len(neighbor_lists) = Len(boids)
           /\ Len(views) = Len(boids)
           /\ \A k \in 1..Len(neighbor_lists) :
                  /\ Len(views[k]) = Len(boids)
                  /\ Elems(neighbor_lists[k]) \subseteq 0..(Len(views[k]) - 1)
           /\ \A c \in 1..Len(spatial_grid.cells) :
                  Elems(spatial_grid.cells[c]) \subseteq 0..(Len(boids) - 1)

\* C12 witness: a Play update took a shrink of a population one step larger
\* that an earlier Play update had moved (so the grid held its larger indices),
\* and gave some agent a candidate list naming every agent of the new sequence.
C12_Witness ==
    /\ pc = "Play"
    /\ pressed_keys = Shrink
    /\ drawn.menu = FALSE
    /\ Len(drawn.boids) = Len(boids) + STEP
    /\ ~Reseeded(drawn.boids, Len(drawn.boids))
    /\ \E k \in 1..Len(neighbor_lists) :
           Elems(neighbor_lists[k]) = 0..(Len(boids) - 1)

====
